---------------------------- MODULE Spec2Model ----------------------------
(***************************************************************************)
(* Sigmabus (arnaucube/sigmabus-poc): a Sigma protocol for X = x*G whose   *)
(* hidden relation is proved by a Groth16 proof, made non-interactive by a *)
(* Poseidon transcript.                                                    *)
(*                                                                         *)
(* Scale.  The pairing curve of the tests (BN254) is replaced by the       *)
(* curve y^2 = x^3 + 7 over F_13, whose group has prime order 7: scalars   *)
(* are the integers mod Q = 7, a group element is written by its discrete  *)
(* logarithm k (the point k*G; 0 is the identity), and GCoords holds the   *)
(* affine coordinates of 1*G .. 6*G.  As on BN254 the base field is larger *)
(* than the scalar field, so prepare_point's reduction is not the          *)
(* identity.  The Poseidon sponge keeps the rate, capacity, exponent and   *)
(* round numbers of poseidon_test_config; its round constants and MDS      *)
(* matrix (found by an external routine) are fixed small tables.  Groth16  *)
(* is the ideal backend: a proof is a token naming the key, the public     *)
(* inputs it was made for, whether its circuit was satisfied, and the      *)
(* prover's randomness.                                                    *)
(***************************************************************************)
EXTENDS Integers, Sequences, FiniteSets, TLC

(***************************************************************************)
(* Bounds of the model.                                                    *)
(***************************************************************************)
\* blinding values o_h range over 0..MaxBlind
MaxBlind == 1
\* Groth16 prover randomness ranges over 0..MaxRho
MaxRho == 1
\* number of Prove/Verify rounds a run of the caller goes through
MaxRounds == 2
\* calls of prove or verify that one transcript serves in the benchmark's use
MaxIter == 2
\* calls that a transcript receives when two transcripts are compared
MaxOps == 3
\* sessions running at once on one Params
MaxSessions == 2

(***************************************************************************)
(* Fields and group.                                                       *)
(***************************************************************************)
\* order of the scalar field E::ScalarField (and of the group E::G1)
Q == 7
\* order of the base field of the curve
BaseQ == 13
Scalars == 0 .. (Q - 1)
Points == 0 .. (Q - 1)
Identity == 0
\* E::G1::generator()
generator == 1
\* affine coordinates of k*G, k = 1..6, on y^2 = x^3 + 7 over F_13
GCoords == << <<7, 5>>, <<8, 5>>, <<11, 8>>, <<11, 5>>, <<8, 8>>, <<7, 8>> >>

\* field arithmetic of E::ScalarField
FAdd(a, b) == (a + b) % Q
FMul(a, b) == (a * b) % Q
\* group arithmetic of E::G1: scalar multiplication and addition
mul(p, k) == (p * k) % Q
PAdd(p1, p2) == (p1 + p2) % Q

(***************************************************************************)
(* Poseidon sponge (PoseidonConfig of poseidon_test_config).               *)
(***************************************************************************)
FULL_ROUNDS == 8
PARTIAL_ROUNDS == 31
ALPHA == 5
RATE == 2
CAPACITY == 1
\* the HashConfigs a caller may hold: two parameterisations of the sponge
Configs == {1, 2}
Width == RATE + CAPACITY
\* round constants and MDS matrix (find_poseidon_ark_and_mds)
Ark(cfg, rnd, i) == (cfg * (rnd + 2) + 3 * i + rnd * rnd) % Q
Mds == << <<1, 4, 5>>, <<4, 5, 2>>, <<5, 2, 3>> >>

SBox(v) == (v ^ ALPHA) % Q
IsFullRound(rnd) == rnd < FULL_ROUNDS \div 2 \/ rnd >= FULL_ROUNDS \div 2 + PARTIAL_ROUNDS
MdsRow(i, b) == (Mds[i][1] * b[1] + Mds[i][2] * b[2] + Mds[i][3] * b[3]) % Q
\* one round: add round constants, S-box (all words in a full round, the
\* first word in a partial round), multiply by the MDS matrix
PoseidonRound(cfg, rnd, st) ==
    LET a == [i \in 1 .. Width |-> (st[i] + Ark(cfg, rnd, i)) % Q]
        b == [i \in 1 .. Width |->
                 IF IsFullRound(rnd) \/ i = 1 THEN SBox(a[i]) ELSE a[i]]
    IN  << MdsRow(1, b), MdsRow(2, b), MdsRow(3, b) >>

\* the rounds, tabulated (a table lookup evaluates its argument once)
RoundTable == [cfg \in Configs |->
                 [rnd \in 0 .. (FULL_ROUNDS + PARTIAL_ROUNDS - 1) |->
                    [st \in Scalars \X Scalars \X Scalars |-> PoseidonRound(cfg, rnd, st)]]]

RECURSIVE PoseidonRounds(_, _, _)
PoseidonRounds(cfg, rnd, st) ==
    IF rnd = FULL_ROUNDS + PARTIAL_ROUNDS THEN st
    ELSE PoseidonRounds(cfg, rnd + 1, RoundTable[cfg][rnd][st])

\* the permutation, tabulated once per config (@@ yields an explicit table)
PermTable == [cfg \in Configs |->
                ([st \in Scalars \X Scalars \X Scalars |-> PoseidonRounds(cfg, 0, st)]
                    @@ <<>>)] @@ <<>>
permute(sp) == [sp EXCEPT !.state = PermTable[sp.cfg][sp.state]]

\* PoseidonSponge::new: the all-zero state, absorbing at index 0
SpongeNew(cfg) ==
    [cfg |-> cfg, state |-> <<0, 0, 0>>, mode |-> "Absorbing", idx |-> 0]

\* add elems into the rate part of the state from rate index start
AddAt(st, start, elems) ==
    [i \in 1 .. Width |->
        IF i > CAPACITY + start /\ i <= CAPACITY + start + Len(elems)
        THEN (st[i] + elems[i - CAPACITY - start]) % Q
        ELSE st[i]]
AsTuple(f) == << f[1], f[2], f[3] >>

RECURSIVE absorb_internal(_, _, _)
absorb_internal(sp, start, elems) ==
    IF start + Len(elems) <= RATE
    THEN [sp EXCEPT !.state = AsTuple(AddAt(sp.state, start, elems)),
                    !.mode = "Absorbing",
                    !.idx = start + Len(elems)]
    ELSE LET n == RATE - start
             filled == [sp EXCEPT !.state =
                           AsTuple(AddAt(sp.state, start, SubSeq(elems, 1, n)))]
         IN  absorb_internal(permute(filled), 0, SubSeq(elems, n + 1, Len(elems)))

\* CryptographicSponge::absorb of a sequence of field elements
SpongeAbsorb(sp, elems) ==
    IF elems = <<>> THEN sp
    ELSE IF sp.mode = "Absorbing"
         THEN IF sp.idx = RATE
              THEN absorb_internal(permute(sp), 0, elems)
              ELSE absorb_internal(sp, sp.idx, elems)
         ELSE absorb_internal(permute(sp), 0, elems)

\* squeeze_field_elements(1): the sponge after the call and the element
SpongeSqueeze(sp) ==
    LET ready == IF sp.mode = "Absorbing" \/ sp.idx = RATE
                 THEN [permute(sp) EXCEPT !.idx = 0]
                 ELSE sp
    IN  [sponge |-> [ready EXCEPT !.mode = "Squeezing", !.idx = ready.idx + 1],
         out |-> ready.state[CAPACITY + ready.idx + 1]]

\* CRH::evaluate(config, input): a fresh sponge absorbs input, one squeeze
CRHcompute(cfg, input) == SpongeSqueeze(SpongeAbsorb(SpongeNew(cfg), input)).out
\* the same, tabulated for inputs of one and of two field elements
CRHTable == [cfg \in Configs |->
               ([input \in {<<a>> : a \in Scalars} \cup (Scalars \X Scalars) |->
                    CRHcompute(cfg, input)] @@ <<>>)] @@ <<>>
CRHevaluate(cfg, input) == CRHTable[cfg][input]

(***************************************************************************)
(* PoseidonTranscript (transcript.rs).  log is history: the operations the *)
(* object has received, with their arguments (get_challenge: its result).  *)
(***************************************************************************)
LogEntry(op, arg) == [op |-> op, arg |-> arg]

\* PoseidonTranscript::new
new(poseidon_config) == [sponge |-> SpongeNew(poseidon_config), log |-> <<>>]

\* an absorb that adds every value into the first rate word
absorb_sameSlot(t, v) ==
    [sponge |-> [t.sponge EXCEPT !.state = AsTuple(AddAt(@, 0, <<v>>)),
                                 !.mode = "Absorbing"],
     log |-> Append(t.log, LogEntry("absorb", v))]

\* PoseidonTranscript::absorb
absorb(t, v) ==
    [sponge |-> SpongeAbsorb(t.sponge, <<v>>),
     log |-> Append(t.log, LogEntry("absorb", v))]

\* into_affine().xy() is None for the identity, and prepare_point unwraps it
HasXY(p) == p # Identity
\* from_le_bytes_mod_order(to_bytes_le(coordinate)): the base-field integer
\* reduced modulo the scalar field's order
from_le_bytes_mod_order(n) == n % Q
\* prepare_point, for a point with affine coordinates
prepare_point(p) ==
    << from_le_bytes_mod_order(GCoords[p][1]), from_le_bytes_mod_order(GCoords[p][2]) >>

\* PoseidonTranscript::absorb_point, for a point with affine coordinates
absorb_point(t, p) ==
    [sponge |-> SpongeAbsorb(t.sponge, prepare_point(p)),
     log |-> Append(t.log, LogEntry("absorb_point", p))]

\* a get_challenge that squeezes c and returns it without absorbing it
get_challenge_noReabsorb(t) ==
    CHOOSE res \in
        {[transcript |-> [sponge |-> sq.sponge,
                          log |-> Append(t.log, LogEntry("get_challenge", sq.out))],
          c |-> sq.out] : sq \in {SpongeSqueeze(t.sponge)}} : TRUE

\* PoseidonTranscript::get_challenge: squeeze c, absorb c, return c
get_challenge(t) ==
    CHOOSE res \in
        {[transcript |-> [sponge |-> SpongeAbsorb(sq.sponge, <<sq.out>>),
                          log |-> Append(t.log, LogEntry("get_challenge", sq.out))],
          c |-> sq.out] : sq \in {SpongeSqueeze(t.sponge)}} : TRUE

(***************************************************************************)
(* GenZKCircuit (circuits.rs).                                             *)
(***************************************************************************)
GenZKCircuit(poseidon_config, cm, s, r_h, c, x, r, o_h) ==
    [poseidon_config |-> poseidon_config,
     cm |-> cm, s |-> s, r_h |-> r_h, c |-> c,
     x |-> x, r |-> r, o_h |-> o_h]

\* a check that does not enforce s == r + c * x
check_noResponse(crh_params, cm, s, r_h, c, x, r, o_h) ==
    /\ CRHevaluate(crh_params, <<x>>) = cm
    /\ CRHevaluate(crh_params, <<r, o_h>>) = r_h

\* GenZKCircuit::check: the three enforced equalities
check(crh_params, cm, s, r_h, c, x, r, o_h) ==
    /\ CRHevaluate(crh_params, <<x>>) = cm
    /\ CRHevaluate(crh_params, <<r, o_h>>) = r_h
    /\ s = FAdd(r, FMul(c, x))

\* generate_constraints: the public inputs in the order they are allocated,
\* and whether the constraint system is satisfied
\* public inputs allocated with s and r_h in each other's place
InstanceOf_reordered(circuit) == << circuit.cm, circuit.r_h, circuit.s, circuit.c >>

InstanceOf(circuit) == << circuit.cm, circuit.s, circuit.r_h, circuit.c >>
IsSatisfied(circuit) ==
    check(circuit.poseidon_config, circuit.cm, circuit.s, circuit.r_h, circuit.c,
          circuit.x, circuit.r, circuit.o_h)

(***************************************************************************)
(* Groth16, the ideal backend.  The keys of one setup carry the same id    *)
(* and the hash parameters the circuit was compiled with.                  *)
(***************************************************************************)
circuit_specific_setup(circuit, tau) ==
    [pk |-> [key |-> tau, crh |-> circuit.poseidon_config],
     vk |-> [key |-> tau, crh |-> circuit.poseidon_config]]

Groth16Prove(pk, circuit, rho) ==
    [key |-> pk.key,
     inputs |-> InstanceOf(circuit),
     sat |-> IsSatisfied(circuit) /\ circuit.poseidon_config = pk.crh,
     rho |-> rho]

\* a backend verifier that accepts a proof whatever public inputs it is for
Groth16Verify_anyInputs(vk, public_input, zkproof) ==
    zkproof.sat /\ zkproof.key = vk.key

\* a backend verifier that accepts any bytes carrying the right public inputs
Groth16Verify_ignoringSat(vk, public_input, zkproof) ==
    zkproof.key = vk.key /\ zkproof.inputs = public_input

Groth16Verify(vk, public_input, zkproof) ==
    /\ zkproof.sat
    /\ zkproof.key = vk.key
    /\ zkproof.inputs = public_input

(***************************************************************************)
(* Sigmabus (sigmabus.rs).                                                 *)
(***************************************************************************)
\* Sigmabus::setup
setup(tau, poseidon_config) ==
    LET circuit == GenZKCircuit(poseidon_config, 0, 0, 0, 0, 0, 0, 0)
        keys == circuit_specific_setup(circuit, tau)
    IN  [poseidon_config |-> poseidon_config, pk |-> keys.pk, vk |-> keys.vk]

\* a response that leaves the challenge out: s = r + x
Response_noChallenge(r, c, x) == FAdd(r, x)

\* s = r + c * x
Response(r, c, x) == FAdd(r, FMul(c, x))

\* a Proof whose cm and r_h are stored in each other's field
Proof_swapped(cm, s, R, r_h, zkproof) ==
    [cm |-> r_h, sigma_proof |-> [s |-> s, R |-> R, r_h |-> cm], zkproof |-> zkproof]

Proof(cm, s, R, r_h, zkproof) ==
    [cm |-> cm, sigma_proof |-> [s |-> s, R |-> R, r_h |-> r_h], zkproof |-> zkproof]

\* Sigmabus::prove with the values r, o_h, rho its rng yields.  The result
\* holds the transcript as the call leaves it.  out = "Panic": the call
\* unwound from prepare_point's unwrap.
prove(pa, t, x, r, o_h, rho) ==
    LET cm == CRHevaluate(pa.poseidon_config, <<x>>)
        t1 == absorb(t, cm)
        R == mul(generator, r)
        r_h == CRHevaluate(pa.poseidon_config, <<r, o_h>>)
        T2 == {absorb_point(a, R) : a \in {t1}}
        T3 == {absorb(a, r_h) : a \in T2}
        Ch == {get_challenge(a) : a \in T3}
    IN  IF ~HasXY(R)
        THEN [out |-> "Panic", transcript |-> t1, proof |-> <<>>, c |-> 0]
        ELSE CHOOSE res \in
               {LET s == Response(r, ch.c, x)
                    circuit == GenZKCircuit(pa.poseidon_config, cm, s, r_h, ch.c, x, r, o_h)
                    zkproof == Groth16Prove(pa.pk, circuit, rho)
                IN  [out |-> "Ok", transcript |-> ch.transcript,
                     proof |-> << Proof(cm, s, R, r_h, zkproof) >>, c |-> ch.c]
                : ch \in Ch} : TRUE

\* the public inputs with cm and s in each other's place
public_input_swapped(pf, c) == << pf.sigma_proof.s, pf.cm, pf.sigma_proof.r_h, c >>

\* the public inputs with the challenge the proof was made for in place of
\* the challenge recomputed by the verifier
public_input_proverChallenge(pf, c) ==
    << pf.cm, pf.sigma_proof.s, pf.sigma_proof.r_h, pf.zkproof.inputs[4] >>

\* the vector verify hands to the backend
public_input(pf, c) == << pf.cm, pf.sigma_proof.s, pf.sigma_proof.r_h, c >>

\* a verifier that does not compare lhs and rhs
SigmaCheck_skipped(pf, c, X) == TRUE

\* lhs != rhs of verify
SigmaCheck(pf, c, X) ==
    mul(generator, pf.sigma_proof.s) = PAdd(pf.sigma_proof.R, mul(X, c))

\* a verify that absorbs s as well before it draws the challenge
verify_absorbingS(pa, t, pf, X) ==
    LET t1 == absorb(t, pf.cm)
        T2 == {absorb_point(a, pf.sigma_proof.R) : a \in {t1}}
        T3 == {absorb(a, pf.sigma_proof.r_h) : a \in T2}
        T4 == {absorb(a, pf.sigma_proof.s) : a \in T3}
        Ch == {get_challenge(a) : a \in T4}
    IN  IF ~HasXY(pf.sigma_proof.R)
        THEN [out |-> "Panic", transcript |-> t1, c |-> 0]
        ELSE CHOOSE res \in
               {[out |-> IF ~SigmaCheck(pf, ch.c, X) THEN "SigmaFail"
                         ELSE IF ~Groth16Verify(pa.vk, public_input(pf, ch.c), pf.zkproof)
                              THEN "GenZKFail"
                              ELSE "Ok",
                 transcript |-> ch.transcript, c |-> ch.c] : ch \in Ch} : TRUE

\* Sigmabus::verify
verify(pa, t, pf, X) ==
    LET t1 == absorb(t, pf.cm)
        T2 == {absorb_point(a, pf.sigma_proof.R) : a \in {t1}}
        T3 == {absorb(a, pf.sigma_proof.r_h) : a \in T2}
        Ch == {get_challenge(a) : a \in T3}
    IN  IF ~HasXY(pf.sigma_proof.R)
        THEN [out |-> "Panic", transcript |-> t1, c |-> 0]
        ELSE CHOOSE res \in
               {[out |-> IF ~SigmaCheck(pf, ch.c, X) THEN "SigmaFail"
                         ELSE IF ~Groth16Verify(pa.vk, public_input(pf, ch.c), pf.zkproof)
                              THEN "GenZKFail"
                              ELSE "Ok",
                 transcript |-> ch.transcript, c |-> ch.c] : ch \in Ch} : TRUE

(***************************************************************************)
(* The callers: the test (test_sigmabus_prove_verify), which gives every   *)
(* call a transcript of its own, and the benchmark (bench_prove), which    *)
(* hands one transcript to prove again and again.  Between prove and       *)
(* verify the proof is in the open, where any one field may be replaced.   *)
(*                                                                         *)
(* params, transcript_p, transcript_v, proof, sess and call hold at most   *)
(* one value: <<>> or <<v>>.  sess is history of the round: the prover's   *)
(* secret and randomness, its challenge, the proof as prove returned it    *)
(* and the field replaced since.  call is the last call: its outcome, and  *)
(* for verify the statement X, the challenge, the proof it was given and   *)
(* the transcript's log before the call.                                   *)
(***************************************************************************)
VARIABLES params, transcript_p, transcript_v, proof, sess, call, round

vars == << params, transcript_p, transcript_v, proof, sess, call, round >>

Blinds == 0 .. MaxBlind
Rhos == 0 .. MaxRho
\* the toxic-waste randomness of the one setup
SetupRand == {1}
\* the HashConfig the caller hands to setup
SetupConfigs == {1}
Fields == {"cm", "s", "R", "r_h", "zkproof"}

Fresh(t) == t # <<>> /\ t[1].log = <<>>
Crashed == call # <<>> /\ call[1].out = "Panic"

\* what may stand in for a Groth16 proof: a re-randomisation of it, proofs
\* made with the proving key for statements of the sender's own, and bytes
\* that are no proof of anything
ZkReplacements(pa, zk) ==
    {[zk EXCEPT !.rho = k] : k \in Rhos}
    \cup {[zk EXCEPT !.sat = FALSE]}
    \cup {Groth16Prove(pa.pk,
                       GenZKCircuit(pa.poseidon_config,
                                    CRHevaluate(pa.poseidon_config, <<x>>),
                                    Response(1, zk.inputs[4], x),
                                    CRHevaluate(pa.poseidon_config, <<1, 0>>),
                                    zk.inputs[4], x, 1, 0),
                       0) : x \in Scalars}

Replaced(pa, pf, field, v) ==
    CASE field = "cm" -> [pf EXCEPT !.cm = v]
      [] field = "s" -> [pf EXCEPT !.sigma_proof.s = v]
      [] field = "R" -> [pf EXCEPT !.sigma_proof.R = v]
      [] field = "r_h" -> [pf EXCEPT !.sigma_proof.r_h = v]
      [] field = "zkproof" -> [pf EXCEPT !.zkproof = v]

Replacements(pa, pf, field) ==
    IF field = "zkproof" THEN ZkReplacements(pa, pf.zkproof) \ {pf.zkproof}
    ELSE IF field = "R" THEN Points \ {pf.sigma_proof.R}
    ELSE IF field = "cm" THEN Scalars \ {pf.cm}
    ELSE IF field = "s" THEN Scalars \ {pf.sigma_proof.s}
    ELSE Scalars \ {pf.sigma_proof.r_h}

Init ==
    /\ params = <<>>
    /\ transcript_p = <<>>
    /\ transcript_v = <<>>
    /\ proof = <<>>
    /\ sess = <<>>
    /\ call = <<>>
    /\ round = 0

\* Sigmabus::setup(rng, poseidon_config)
Setup ==
    /\ params = <<>>
    /\ \E tau \in SetupRand, cfg \in SetupConfigs : params' = << setup(tau, cfg) >>
    /\ UNCHANGED << transcript_p, transcript_v, proof, sess, call, round >>

\* let mut transcript_p = PoseidonTranscript::new(&poseidon_config)
NewP ==
    /\ params # <<>> /\ ~Crashed
    /\ transcript_p = <<>>
    /\ round < MaxRounds
    /\ \E cfg \in Configs : transcript_p' = << new(cfg) >>
    /\ UNCHANGED << params, transcript_v, proof, sess, call, round >>

\* Sigmabus::prove(rng, &params, &mut transcript_p, x)
ProveCall(x, r, o_h, rho) ==
    \E res \in {prove(params[1], transcript_p[1], x, r, o_h, rho)} :
        /\ transcript_p' = << res.transcript >>
        /\ proof' = res.proof
        /\ sess' = << [x |-> x, r |-> r, o_h |-> o_h, c |-> res.c,
                       honest |-> res.proof, replaced |-> "none",
                       fresh |-> Fresh(transcript_p),
                       cfg |-> transcript_p[1].sponge.cfg] >>
        /\ call' = << [op |-> "prove", out |-> res.out, c |-> res.c, X |-> Identity,
                       pf |-> <<>>, pre |-> transcript_p[1].log] >>
        /\ UNCHANGED << params, transcript_v >>

Prove ==
    /\ params # <<>> /\ ~Crashed
    /\ Fresh(transcript_p)
    /\ \E x \in Scalars, r \in Scalars, o_h \in Blinds, rho \in Rhos :
          ProveCall(x, r, o_h, rho)
    /\ UNCHANGED round

\* the proof on its way to the verifier: one field is replaced
Tamper ==
    /\ proof # <<>> /\ ~Crashed
    /\ transcript_v = <<>>
    /\ sess[1].replaced = "none"
    /\ \E field \in Fields :
         \E v \in Replacements(params[1], proof[1], field) :
            /\ proof' = << Replaced(params[1], proof[1], field, v) >>
            /\ sess' = << [sess[1] EXCEPT !.replaced = field] >>
    /\ UNCHANGED << params, transcript_p, transcript_v, call, round >>

\* let mut transcript_v = PoseidonTranscript::new(&poseidon_config)
NewV ==
    /\ proof # <<>> /\ ~Crashed
    /\ transcript_v = <<>>
    /\ \E cfg \in Configs : transcript_v' = << new(cfg) >>
    /\ UNCHANGED << params, transcript_p, proof, sess, call, round >>

\* Sigmabus::verify(&params, &mut transcript_v, proof, X): the proof is moved
\* into the call
\* a verify that takes the verifying key out of params
VerifyCall_consuming(X) ==
    \E res \in {verify(params[1], transcript_v[1], proof[1], X)} :
        /\ transcript_v' = << res.transcript >>
        /\ proof' = <<>>
        /\ params' = << [params[1] EXCEPT !.vk.key = 0] >>
        /\ call' = << [op |-> "verify", out |-> res.out, c |-> res.c, X |-> X,
                       pf |-> proof, pre |-> transcript_v[1].log] >>
        /\ UNCHANGED << transcript_p, sess >>

VerifyCall(X) ==
    \E res \in {verify(params[1], transcript_v[1], proof[1], X)} :
        /\ transcript_v' = << res.transcript >>
        /\ proof' = <<>>
        /\ call' = << [op |-> "verify", out |-> res.out, c |-> res.c, X |-> X,
                       pf |-> proof, pre |-> transcript_v[1].log] >>
        /\ UNCHANGED << params, transcript_p, sess >>

Verify ==
    /\ proof # <<>> /\ ~Crashed
    /\ Fresh(transcript_v)
    /\ \E X \in Points : VerifyCall(X)
    /\ UNCHANGED round

\* the round is over: its transcripts and results go out of scope
Drop ==
    /\ call # <<>> /\ call[1].op = "verify" /\ ~Crashed
    /\ transcript_p' = <<>>
    /\ transcript_v' = <<>>
    /\ sess' = <<>>
    /\ call' = <<>>
    /\ round' = round + 1
    /\ UNCHANGED << params, proof >>

Next == Setup \/ NewP \/ Prove \/ Tamper \/ NewV \/ Verify \/ Drop

Spec == Init /\ [][Next]_vars
(***************************************************************************)
(* The benchmark's use of prove: x is drawn once and one transcript_p,     *)
(* created once, serves every iteration of prove; a caller may as well     *)
(* hand a transcript that served verify to the next prove.  The proofs are *)
(* verified for X = x*G on a transcript created for the call from the      *)
(* PoseidonConfig of setup.                                                *)
(***************************************************************************)
BenchProve ==
    /\ params # <<>> /\ ~Crashed
    /\ transcript_p # <<>> /\ transcript_v = <<>>
    /\ Len(transcript_p[1].log) < 4 * MaxIter
    /\ \E x \in (IF sess = <<>> THEN Scalars ELSE {sess[1].x}),
          r \in Scalars, o_h \in Blinds, rho \in Rhos :
          ProveCall(x, r, o_h, rho)
    /\ UNCHANGED round

BenchNewV ==
    /\ proof # <<>> /\ ~Crashed
    /\ transcript_v = <<>>
    /\ transcript_v' = << new(params[1].poseidon_config) >>
    /\ UNCHANGED << params, transcript_p, proof, sess, call, round >>

BenchVerify ==
    /\ proof # <<>> /\ ~Crashed
    /\ Fresh(transcript_v)
    /\ VerifyCall(mul(generator, sess[1].x))
    /\ UNCHANGED round

Reuse ==
    /\ call # <<>> /\ call[1].op = "verify" /\ ~Crashed
    /\ round < MaxIter - 1
    /\ transcript_p' = transcript_v
    /\ transcript_v' = <<>>
    /\ call' = <<>>
    /\ round' = round + 1
    /\ UNCHANGED << params, proof, sess >>

NextBench == Setup \/ NewP \/ BenchProve \/ BenchNewV \/ BenchVerify \/ Reuse

SpecBench == Init /\ [][NextBench]_vars

(***************************************************************************)
(* Two transcripts created from one PoseidonConfig.  transcript_p receives *)
(* any calls; transcript_v receives the same calls (the same operations    *)
(* with the same arguments) in any order.  absorb_point is called with     *)
(* points that have affine coordinates.                                    *)
(***************************************************************************)
\* what a call was given: get_challenge takes no argument
Input(e) == IF e.op = "get_challenge" THEN LogEntry("get_challenge", 0) ELSE e
Inputs(log) == [i \in 1 .. Len(log) |-> Input(log[i])]
Count(log, e) == Cardinality({i \in 1 .. Len(log) : Input(log[i]) = e})
\* transcript_v has not yet received the call e as often as transcript_p
Owed(e) == Count(transcript_v[1].log, e) < Count(transcript_p[1].log, e)

\* the field elements and the points that the compared transcripts are given
AbsorbedScalars == {0, 1, 2, 3}
AbsorbedPoints == {p \in {1, 2, 3} : HasXY(p)}

InitTranscript ==
    /\ \E cfg \in Configs :
          /\ transcript_p = << new(cfg) >>
          /\ transcript_v = << new(cfg) >>
    /\ params = <<>> /\ proof = <<>> /\ sess = <<>> /\ call = <<>>
    /\ round = 0

PAbsorb ==
    /\ Len(transcript_p[1].log) < MaxOps
    /\ \E v \in AbsorbedScalars : transcript_p' = << absorb(transcript_p[1], v) >>
    /\ UNCHANGED << params, transcript_v, proof, sess, call, round >>

PAbsorbPoint ==
    /\ Len(transcript_p[1].log) < MaxOps
    /\ \E p \in AbsorbedPoints :
          transcript_p' = << absorb_point(transcript_p[1], p) >>
    /\ UNCHANGED << params, transcript_v, proof, sess, call, round >>

PGetChallenge ==
    /\ Len(transcript_p[1].log) < MaxOps
    /\ \E res \in {get_challenge(transcript_p[1])} :
          transcript_p' = << res.transcript >>
    /\ UNCHANGED << params, transcript_v, proof, sess, call, round >>

VAbsorb ==
    /\ \E v \in AbsorbedScalars :
          /\ Owed(LogEntry("absorb", v))
          /\ transcript_v' = << absorb(transcript_v[1], v) >>
    /\ UNCHANGED << params, transcript_p, proof, sess, call, round >>

VAbsorbPoint ==
    /\ \E p \in AbsorbedPoints :
          /\ Owed(LogEntry("absorb_point", p))
          /\ transcript_v' = << absorb_point(transcript_v[1], p) >>
    /\ UNCHANGED << params, transcript_p, proof, sess, call, round >>

VGetChallenge ==
    /\ Owed(LogEntry("get_challenge", 0))
    /\ \E res \in {get_challenge(transcript_v[1])} :
          transcript_v' = << res.transcript >>
    /\ UNCHANGED << params, transcript_p, proof, sess, call, round >>

NextTranscript ==
    \/ PAbsorb \/ PAbsorbPoint \/ PGetChallenge
    \/ VAbsorb \/ VAbsorbPoint \/ VGetChallenge

SpecTranscript == InitTranscript /\ [][NextTranscript]_vars

(***************************************************************************)
(* The circuit on its own (test_gen_zk): the values are computed with the  *)
(* steps of prove, for any challenge; one of them may then be replaced;    *)
(* the constraints are generated and is_satisfied is read.  sess holds the *)
(* circuit and the value replaced, call the outcome.                       *)
(***************************************************************************)
CircuitValues == {"cm", "s", "r_h", "c", "x", "r", "o_h"}

InitCircuit == Init

GenZKAssign ==
    /\ sess = <<>>
    /\ \E cfg \in Configs, x \in Scalars, r \in Scalars, o_h \in Blinds, c \in Scalars :
          sess' = << [circuit |->
                         GenZKCircuit(cfg, CRHevaluate(cfg, <<x>>), Response(r, c, x),
                                      CRHevaluate(cfg, <<r, o_h>>), c, x, r, o_h),
                      replaced |-> "none"] >>
    /\ UNCHANGED << params, transcript_p, transcript_v, proof, call, round >>

GenZKReplace ==
    /\ sess # <<>> /\ call = <<>>
    /\ sess[1].replaced = "none"
    /\ \E value \in CircuitValues, v \in Scalars :
          /\ v # sess[1].circuit[value]
          /\ sess' = << [circuit |-> [sess[1].circuit EXCEPT ![value] = v],
                         replaced |-> value] >>
    /\ UNCHANGED << params, transcript_p, transcript_v, proof, call, round >>

GenZKGenerate ==
    /\ sess # <<>> /\ call = <<>>
    /\ call' = << [op |-> "generate_constraints",
                   out |-> IF IsSatisfied(sess[1].circuit)
                           THEN "Satisfied" ELSE "Unsatisfied",
                   instance |-> InstanceOf(sess[1].circuit)] >>
    /\ UNCHANGED << params, transcript_p, transcript_v, proof, sess, round >>

NextCircuit == GenZKAssign \/ GenZKReplace \/ GenZKGenerate

SpecCircuit == InitCircuit /\ [][NextCircuit]_vars

(***************************************************************************)
(* The layout of the public inputs: verify as it is, and beside it the     *)
(* backend's answer to the vector of verify with its entries permuted.     *)
(***************************************************************************)
Layouts == {p \in [1 .. 4 -> 1 .. 4] : \A i, j \in 1 .. 4 : p[i] = p[j] => i = j}
Permuted(vec, p) == << vec[p[1]], vec[p[2]], vec[p[3]], vec[p[4]] >>

VerifyLayout ==
    /\ proof # <<>> /\ ~Crashed
    /\ Fresh(transcript_v)
    /\ \E p \in Layouts :
       \E res \in {verify(params[1], transcript_v[1], proof[1],
                          mul(generator, sess[1].x))} :
          /\ transcript_v' = << res.transcript >>
          /\ proof' = <<>>
          /\ call' = << [op |-> "verify", out |-> res.out, c |-> res.c,
                         X |-> mul(generator, sess[1].x), pf |-> proof,
                         pre |-> transcript_v[1].log,
                         layout |-> p,
                         backend |-> Groth16Verify(params[1].vk,
                                        Permuted(public_input(proof[1], res.c), p),
                                        proof[1].zkproof)] >>
    /\ UNCHANGED << params, transcript_p, sess, round >>

NextLayout == Setup \/ NewP \/ Prove \/ BenchNewV \/ VerifyLayout

SpecLayout == Init /\ [][NextLayout]_vars

(***************************************************************************)
(* Concurrent sessions.  Several prove and verify calls run at once on one *)
(* Params (borrowed as &Params, never written), each on a transcript of    *)
(* its own (borrowed as &mut, so no two calls can hold the same one).  A   *)
(* call is cut at the points where it drives its transcript: absorb(cm),   *)
(* absorb_point(R), absorb(r_h), get_challenge, and the rest of the body.  *)
(* sess holds the sessions in the order they were opened; a session keeps  *)
(* its arguments, its transcript, its position, and what it has computed.  *)
(* A prove session's rng sample (r, o_h, the backend's rho) is fixed when  *)
(* the session opens.                                                      *)
(***************************************************************************)
SessionSecrets == {0, 3}
SessionNonces == {0, 2}

ProveArgs ==
    {[kind |-> "prove", x |-> x, r |-> r, o_h |-> o_h, rho |-> 0,
      pf |-> <<>>, X |-> Identity]
        : x \in SessionSecrets, r \in SessionNonces, o_h \in Blinds}

\* proofs a verifier may be handed: an honest one, one with s replaced,
\* one with R replaced by the identity
GivenProofs ==
    {g \in
       UNION {{h, Replaced(params[1], h, "s", FAdd(h.sigma_proof.s, 1)),
               Replaced(params[1], h, "R", Identity)}
                : h \in {prove(params[1], new(params[1].poseidon_config),
                               3, 2, 0, 0).proof[1]}} : TRUE}

VerifyArgs ==
    {[kind |-> "verify", x |-> 0, r |-> 0, o_h |-> 0, rho |-> 0,
      pf |-> << g >>, X |-> X]
        : g \in GivenProofs, X \in {mul(generator, 3), mul(generator, 4)}}

Session(args, t) ==
    [args |-> args, transcript |-> t, pc |-> "opened", c |-> 0,
     out |-> "", proof |-> <<>>]

\* the values a session absorbs: prove computes them, verify reads them
\* from the proof
SessionCm(se) ==
    IF se.args.kind = "prove"
    THEN CRHevaluate(params[1].poseidon_config, << se.args.x >>)
    ELSE se.args.pf[1].cm

SessionR(se) ==
    IF se.args.kind = "prove"
    THEN mul(generator, se.args.r)
    ELSE se.args.pf[1].sigma_proof.R

SessionRh(se) ==
    IF se.args.kind = "prove"
    THEN CRHevaluate(params[1].poseidon_config, << se.args.r, se.args.o_h >>)
    ELSE se.args.pf[1].sigma_proof.r_h

Running(i) == i \in 1 .. Len(sess)

Open ==
    /\ params # <<>>
    /\ Len(sess) < MaxSessions
    /\ \E args \in ProveArgs \cup VerifyArgs :
         sess' = Append(sess, Session(args, new(params[1].poseidon_config)))
    /\ UNCHANGED << params, transcript_p, transcript_v, proof, call, round >>

\* a session's absorb_point written to the first session's transcript
AbsorbR_shared(i) ==
    /\ Running(i)
    /\ sess[i].pc = "cm"
    /\ IF HasXY(SessionR(sess[i]))
       THEN sess' = [[sess EXCEPT ![i].pc = "R"] EXCEPT
                       ![1].transcript = absorb_point(@, SessionR(sess[i]))]
       ELSE sess' = [sess EXCEPT ![i].pc = "panicked", ![i].out = "Panic"]
    /\ UNCHANGED << params, transcript_p, transcript_v, proof, call, round >>

AbsorbCm(i) ==
    /\ Running(i)
    /\ sess[i].pc = "opened"
    /\ sess' = [sess EXCEPT ![i].pc = "cm",
                            ![i].transcript = absorb(@, SessionCm(sess[i]))]
    /\ UNCHANGED << params, transcript_p, transcript_v, proof, call, round >>

AbsorbR(i) ==
    /\ Running(i)
    /\ sess[i].pc = "cm"
    /\ IF HasXY(SessionR(sess[i]))
       THEN sess' = [sess EXCEPT ![i].pc = "R",
                       ![i].transcript = absorb_point(@, SessionR(sess[i]))]
       ELSE sess' = [sess EXCEPT ![i].pc = "panicked", ![i].out = "Panic"]
    /\ UNCHANGED << params, transcript_p, transcript_v, proof, call, round >>

AbsorbRh(i) ==
    /\ Running(i)
    /\ sess[i].pc = "R"
    /\ sess' = [sess EXCEPT ![i].pc = "r_h",
                            ![i].transcript = absorb(@, SessionRh(sess[i]))]
    /\ UNCHANGED << params, transcript_p, transcript_v, proof, call, round >>

GetChallenge(i) ==
    /\ Running(i)
    /\ sess[i].pc = "r_h"
    /\ \E ch \in {get_challenge(sess[i].transcript)} :
         sess' = [sess EXCEPT ![i].pc = "c", ![i].c = ch.c,
                              ![i].transcript = ch.transcript]
    /\ UNCHANGED << params, transcript_p, transcript_v, proof, call, round >>

\* prove: s, the circuit and the Groth16 proof
FinishProve(i) ==
    /\ Running(i)
    /\ sess[i].pc = "c"
    /\ sess[i].args.kind = "prove"
    /\ LET a == sess[i].args
           s == Response(a.r, sess[i].c, a.x)
           circuit == GenZKCircuit(params[1].poseidon_config, SessionCm(sess[i]),
                                   s, SessionRh(sess[i]), sess[i].c, a.x, a.r, a.o_h)
           zkproof == Groth16Prove(params[1].pk, circuit, a.rho)
       IN  sess' = [sess EXCEPT ![i].pc = "done", ![i].out = "Ok",
                      ![i].proof = << Proof(SessionCm(sess[i]), s, SessionR(sess[i]),
                                            SessionRh(sess[i]), zkproof) >>]
    /\ UNCHANGED << params, transcript_p, transcript_v, proof, call, round >>

\* verify: the sigma check, then the Groth16 verification
FinishVerify(i) ==
    /\ Running(i)
    /\ sess[i].pc = "c"
    /\ sess[i].args.kind = "verify"
    /\ LET pf == sess[i].args.pf[1]
       IN  sess' = [sess EXCEPT ![i].pc = "done",
                      ![i].out =
                          IF ~SigmaCheck(pf, sess[i].c, sess[i].args.X)
                          THEN "SigmaFail"
                          ELSE IF ~Groth16Verify(params[1].vk,
                                                 public_input(pf, sess[i].c),
                                                 pf.zkproof)
                               THEN "GenZKFail"
                               ELSE "Ok"]
    /\ UNCHANGED << params, transcript_p, transcript_v, proof, call, round >>

Step(i) ==
    \/ AbsorbCm(i)
    \/ AbsorbR(i)
    \/ AbsorbRh(i)
    \/ GetChallenge(i)
    \/ FinishProve(i)
    \/ FinishVerify(i)

NextSessions == Setup \/ Open \/ \E i \in 1 .. MaxSessions : Step(i)

SpecSessions == Init /\ [][NextSessions]_vars

\* the session run alone: the whole call on a fresh transcript
Alone(se) ==
    IF se.args.kind = "prove"
    THEN prove(params[1], new(params[1].poseidon_config),
               se.args.x, se.args.r, se.args.o_h, se.args.rho)
    ELSE [proof |-> <<>>] @@
         verify(params[1], new(params[1].poseidon_config), se.args.pf[1], se.args.X)

(***************************************************************************)
(* Vocabulary of the claims.                                               *)
(***************************************************************************)
VerifyDone == call # <<>> /\ call[1].op = "verify"
\* the statement of the prover: X = x*G
Statement == mul(generator, sess[1].x)
\* the proof reached verify as prove returned it
HonestProof == sess[1].replaced = "none"
\* both transcripts were created for the call they served
FreshTranscripts == sess[1].fresh /\ call[1].pre = <<>>
\* both transcripts were created from the HashConfig given to setup
MatchingConfigs ==
    /\ sess[1].cfg = params[1].poseidon_config
    /\ transcript_v[1].sponge.cfg = params[1].poseidon_config
\* an honest proof, verified as the test does
HonestRun ==
    /\ VerifyDone /\ HonestProof /\ FreshTranscripts /\ MatchingConfigs
    /\ call[1].X = Statement
\* one field replaced, everything else as the test does
TamperedRun ==
    /\ VerifyDone /\ ~HonestProof /\ FreshTranscripts /\ MatchingConfigs
    /\ call[1].X = Statement
Rejected == call[1].out \in {"SigmaFail", "GenZKFail"}
\* zk is a backend proof, under the keys of params, of the public inputs
ProofOf(zk, inputs) == zk.sat /\ zk.key = params[1].vk.key /\ zk.inputs = inputs
\* (x, r, o_h) is a witness of the GenZK relation for the public inputs of
\* the proof verify was given and the challenge c
IsWitness(pf, c, x, r, o_h) ==
    /\ pf.cm = CRHevaluate(params[1].poseidon_config, <<x>>)
    /\ pf.sigma_proof.r_h = CRHevaluate(params[1].poseidon_config, <<r, o_h>>)
    /\ pf.sigma_proof.s = (r + c * x) % Q

(***************************************************************************)
(* C1  Completeness: a proof returned by prove(x) on a fresh transcript is *)
(* accepted by verify with X = x*G on a fresh transcript, both transcripts *)
(* created from the HashConfig of setup.                                   *)
(***************************************************************************)
C1_Completeness == HonestRun => call[1].out = "Ok"

C1_Witness == HonestRun /\ call[1].out = "Ok" /\ sess[1].x # 0 /\ call[1].c # 0

(***************************************************************************)
(* C2  Rejection of a wrong statement, as claimed: verify of an honest     *)
(* proof with X' # x*G never returns Ok.                                   *)
(***************************************************************************)
C2_WrongStatementRejected ==
    (VerifyDone /\ HonestProof /\ FreshTranscripts /\ MatchingConfigs
        /\ call[1].X # Statement)
    => call[1].out # "Ok"

(***************************************************************************)
(* C2 as amended: verify of an honest proof with X' # x*G returns          *)
(* SigmaFail whenever the challenge is not 0, and returns Ok exactly when  *)
(* the challenge is 0.                                                     *)
(***************************************************************************)
C2_WrongStatementAmended ==
    (VerifyDone /\ HonestProof /\ FreshTranscripts /\ MatchingConfigs
        /\ call[1].X # Statement)
    => /\ call[1].c # 0 => call[1].out = "SigmaFail"
       /\ call[1].c = 0 <=> call[1].out = "Ok"

C2_Witness ==
    /\ VerifyDone /\ HonestProof /\ FreshTranscripts /\ MatchingConfigs
    /\ call[1].X # Statement /\ call[1].c # 0 /\ call[1].out = "SigmaFail"

(***************************************************************************)
(* C3  Soundness of acceptance, as claimed: whenever verify returns Ok for *)
(* a proof and a point X, a witness (x, r, o_h) of the relation for the    *)
(* proof's public inputs has X = x*G.                                      *)
(***************************************************************************)
C3_AcceptedImpliesStatement ==
    (VerifyDone /\ call[1].out = "Ok")
    => \E x \in Scalars, r \in Scalars, o_h \in Scalars :
          /\ IsWitness(call[1].pf[1], call[1].c, x, r, o_h)
          /\ call[1].X = mul(generator, x)

(***************************************************************************)
(* C3 as amended: whenever verify returns Ok, s*G = R + c*X holds, the     *)
(* relation has a witness for the public inputs [cm, s, r_h, c], and every *)
(* witness (x, r, o_h) with R = r*G has X = x*G provided c # 0.            *)
(***************************************************************************)
C3_AcceptedAmended ==
    (VerifyDone /\ call[1].out = "Ok")
    => LET pf == call[1].pf[1]
           c == call[1].c
       IN  /\ mul(generator, pf.sigma_proof.s)
                 = PAdd(pf.sigma_proof.R, mul(call[1].X, c))
           /\ \E x \in Scalars, r \in Scalars, o_h \in Scalars :
                 IsWitness(pf, c, x, r, o_h)
           /\ \A x \in Scalars, r \in Scalars, o_h \in Scalars :
                 (IsWitness(pf, c, x, r, o_h)
                     /\ pf.sigma_proof.R = mul(generator, r) /\ c # 0)
                 => call[1].X = mul(generator, x)

C3_Witness ==
    /\ VerifyDone /\ call[1].out = "Ok" /\ call[1].c # 0
    /\ ~HonestProof /\ call[1].X = Statement

(***************************************************************************)
(* C4  Error taxonomy: every verify call ends in exactly one of SigmaFail  *)
(* (s*G # R + c*X), GenZKFail (s*G = R + c*X and the backend rejects       *)
(* [cm, s, r_h, c]) and Ok (both checks pass), for the challenge c of the  *)
(* proof.                                                                  *)
(***************************************************************************)
C4_ErrorTaxonomy ==
    VerifyDone
    => \E c \in Scalars :
          LET pf == call[1].pf[1]
              sigma == mul(generator, pf.sigma_proof.s)
                          = PAdd(pf.sigma_proof.R, mul(call[1].X, c))
              backend == ProofOf(pf.zkproof,
                                 <<pf.cm, pf.sigma_proof.s, pf.sigma_proof.r_h, c>>)
          IN  /\ call[1].out # "Panic" => c = call[1].c
              /\ call[1].out = "SigmaFail" <=> ~sigma
              /\ call[1].out = "GenZKFail" <=> (sigma /\ ~backend)
              /\ call[1].out = "Ok" <=> (sigma /\ backend)

\* the taxonomy of C4 on the calls that derive a challenge (R not the identity)
C4_TaxonomyOfReturningCalls ==
    (VerifyDone /\ call[1].out # "Panic")
    => LET pf == call[1].pf[1]
           c == call[1].c
           sigma == mul(generator, pf.sigma_proof.s)
                       = PAdd(pf.sigma_proof.R, mul(call[1].X, c))
           backend == ProofOf(pf.zkproof,
                              <<pf.cm, pf.sigma_proof.s, pf.sigma_proof.r_h, c>>)
       IN  /\ call[1].out = "SigmaFail" <=> ~sigma
           /\ call[1].out = "GenZKFail" <=> (sigma /\ ~backend)
           /\ call[1].out = "Ok" <=> (sigma /\ backend)

(***************************************************************************)
(* C5  Tamper rejection, as claimed: an honest proof in which exactly one  *)
(* of cm, s, R, r_h, zkProof was replaced by a different value makes       *)
(* verify (X = x*G, fresh transcript) return SigmaFail or GenZKFail.       *)
(***************************************************************************)
C5_TamperRejected == TamperedRun => Rejected

(***************************************************************************)
(* C5 as amended: replacing s gives SigmaFail; replacing cm or r_h gives   *)
(* SigmaFail or GenZKFail; replacing R gives SigmaFail or GenZKFail, and   *)
(* aborts verify when the new R is the identity; replacing zkProof gives   *)
(* Ok when the new value is again a backend proof of [cm, s, r_h, c] and   *)
(* GenZKFail otherwise.                                                    *)
(***************************************************************************)
C5_TamperAmended ==
    TamperedRun
    => LET pf == call[1].pf[1]
           field == sess[1].replaced
       IN  /\ field = "s" => call[1].out = "SigmaFail"
           /\ field \in {"cm", "r_h"} => Rejected
           /\ field = "R" =>
                 IF pf.sigma_proof.R = Identity
                 THEN call[1].out = "Panic" ELSE Rejected
           /\ field = "zkproof" =>
                 IF ProofOf(pf.zkproof,
                            <<pf.cm, pf.sigma_proof.s, pf.sigma_proof.r_h, call[1].c>>)
                 THEN call[1].out = "Ok" ELSE call[1].out = "GenZKFail"

C5_Witness ==
    /\ TamperedRun /\ sess[1].replaced = "cm" /\ call[1].out = "GenZKFail"

(***************************************************************************)
(* C6  Failure localisation, as claimed: changing only s makes verify      *)
(* return SigmaFail, and changing only zkProof makes it return GenZKFail.  *)
(***************************************************************************)
C6_FailureLocalised ==
    TamperedRun
    => /\ sess[1].replaced = "s" => call[1].out = "SigmaFail"
       /\ sess[1].replaced = "zkproof" => call[1].out = "GenZKFail"

(***************************************************************************)
(* C6 as amended: changing only s makes verify return SigmaFail; changing  *)
(* only zkProof never gives SigmaFail, and gives GenZKFail whenever the    *)
(* new value is not a backend proof of the honest public inputs.           *)
(***************************************************************************)
C6_LocalisedAmended ==
    TamperedRun
    => /\ sess[1].replaced = "s" => call[1].out = "SigmaFail"
       /\ sess[1].replaced = "zkproof" =>
             /\ call[1].out # "SigmaFail"
             /\ ~ProofOf(call[1].pf[1].zkproof, sess[1].honest[1].zkproof.inputs)
                   => call[1].out = "GenZKFail"

C6_Witness ==
    /\ TamperedRun /\ sess[1].replaced = "zkproof" /\ call[1].out = "GenZKFail"
    /\ call[1].pf[1].zkproof.sat

(***************************************************************************)
(* C7  Transcript ordering: every verify call performs on its transcript   *)
(* exactly absorb(cm), absorb_point(R), absorb(r_h), get_challenge, in     *)
(* this order, with the fields of the proof it was given.                  *)
(***************************************************************************)
C7_VerifyTranscriptOrder ==
    VerifyDone
    => \E c \in Scalars :
          transcript_v[1].log
             = call[1].pre \o
               << LogEntry("absorb", call[1].pf[1].cm),
                  LogEntry("absorb_point", call[1].pf[1].sigma_proof.R),
                  LogEntry("absorb", call[1].pf[1].sigma_proof.r_h),
                  LogEntry("get_challenge", c) >>

\* the order of C7 on the calls of prove and verify that return
C7_OrderOfReturningCalls ==
    (call # <<>> /\ call[1].out # "Panic")
    => LET pf == IF call[1].op = "prove" THEN sess[1].honest[1] ELSE call[1].pf[1]
           t == IF call[1].op = "prove" THEN transcript_p[1] ELSE transcript_v[1]
       IN  t.log = call[1].pre \o
                   << LogEntry("absorb", pf.cm),
                      LogEntry("absorb_point", pf.sigma_proof.R),
                      LogEntry("absorb", pf.sigma_proof.r_h),
                      LogEntry("get_challenge", call[1].c) >>

(***************************************************************************)
(* C8  Transcript determinism, as claimed: two transcripts of one          *)
(* PoseidonConfig that received the same sequence of calls returned the    *)
(* same challenge from every get_challenge, and two that received the same *)
(* calls in different orders returned different challenges from their      *)
(* final get_challenge.                                                    *)
(***************************************************************************)
\* transcript_v has received every call of transcript_p, in some order
Rearranged == Len(transcript_p[1].log) = Len(transcript_v[1].log)
SameOrder == Inputs(transcript_p[1].log) = Inputs(transcript_v[1].log)
EndsWithChallenge(log) == log # <<>> /\ log[Len(log)].op = "get_challenge"
LastChallenge(log) == log[Len(log)].arg
OnlyAbsorbs(log) == \A i \in 1 .. Len(log) : log[i].op = "absorb"

C8_OrderChangesChallenge ==
    (/\ Rearranged
     /\ EndsWithChallenge(transcript_p[1].log)
     /\ EndsWithChallenge(transcript_v[1].log))
    => /\ SameOrder => transcript_p[1].log = transcript_v[1].log
       /\ ~SameOrder => LastChallenge(transcript_p[1].log)
                            # LastChallenge(transcript_v[1].log)

(***************************************************************************)
(* C8 as amended: two transcripts of one PoseidonConfig that received the  *)
(* same sequence of calls returned the same challenges and hold the same   *)
(* sponge; two that absorbed the same field elements, at most RATE of      *)
(* them, in different orders hold different sponge states (the challenge,  *)
(* one word of the permuted state, may still be the same).                 *)
(***************************************************************************)
C8_DeterminismAmended ==
    Rearranged
    => /\ SameOrder => transcript_p = transcript_v
       /\ (/\ ~SameOrder
           /\ OnlyAbsorbs(transcript_p[1].log)
           /\ Len(transcript_p[1].log) <= RATE)
          => transcript_p[1].sponge.state # transcript_v[1].sponge.state

C8_Witness ==
    /\ Rearranged /\ ~SameOrder
    /\ EndsWithChallenge(transcript_p[1].log)
    /\ EndsWithChallenge(transcript_v[1].log)
    /\ OnlyAbsorbs(SubSeq(transcript_p[1].log, 1, RATE))
    /\ LastChallenge(transcript_p[1].log) # LastChallenge(transcript_v[1].log)

(***************************************************************************)
(* C9  Key reusability: after one setup, every later session of prove and  *)
(* verify on fresh transcripts still accepts the honest proof, and no step *)
(* of prove or verify changes params.                                      *)
(***************************************************************************)
C9_KeysReusable ==
    /\ []((HonestRun /\ round >= 1) => call[1].out = "Ok")
    /\ [][params # <<>> => params' = params]_vars

C9_Witness == HonestRun /\ round >= 1 /\ call[1].out = "Ok"

(***************************************************************************)
(* C10  Fresh transcript per session, as claimed: a proof that prove made  *)
(* on a transcript already driven by an earlier prove or verify is         *)
(* rejected (SigmaFail or GenZKFail) by verify on a fresh transcript with  *)
(* X = x*G.                                                                *)
(***************************************************************************)
ReusedRun ==
    /\ VerifyDone /\ HonestProof /\ ~sess[1].fresh /\ call[1].pre = <<>>
    /\ call[1].X = Statement

C10_ReusedTranscriptRejected == ReusedRun => Rejected

(***************************************************************************)
(* C10 as amended: such a proof is accepted exactly when the challenge the *)
(* verifier recomputes on its fresh transcript equals the challenge the    *)
(* prover drew from the used one; when they differ verify returns          *)
(* SigmaFail if x # 0 and GenZKFail if x = 0.                              *)
(***************************************************************************)
C10_ReusedTranscriptAmended ==
    ReusedRun
    => /\ call[1].c = sess[1].c <=> call[1].out = "Ok"
       /\ (call[1].c # sess[1].c /\ sess[1].x # 0) => call[1].out = "SigmaFail"
       /\ (call[1].c # sess[1].c /\ sess[1].x = 0) => call[1].out = "GenZKFail"

C10_Witness ==
    /\ ReusedRun /\ call[1].c # sess[1].c /\ call[1].out = "SigmaFail"
    /\ transcript_v[1].sponge.cfg = sess[1].cfg

(***************************************************************************)
(* C11  Verify is total: whatever proof (R the identity included) and      *)
(* whatever point X it is given, a verify call ends with one of Ok,        *)
(* SigmaFail, GenZKFail.                                                   *)
(***************************************************************************)
C11_VerifyTotal ==
    VerifyDone => call[1].out \in {"Ok", "SigmaFail", "GenZKFail"}

(***************************************************************************)
(* C12  Honest-proof invariants: a proof returned by prove(x) with the     *)
(* sampled r, o_h has R = r*G, cm = Hash1(x), r_h = Hash2(r, o_h) and      *)
(* s = r + c*x mod Q, where c is what get_challenge returned after the     *)
(* transcript absorbed cm, then R, then r_h; and verify, on a fresh        *)
(* transcript of the same PoseidonConfig, recomputes this c from the       *)
(* proof.                                                                  *)
(***************************************************************************)
C12_HonestProofInvariants ==
    (sess # <<>> /\ sess[1].honest # <<>> /\ sess[1].fresh)
    => LET pf == sess[1].honest[1]
           c == sess[1].c
           cfg == params[1].poseidon_config
       IN  /\ pf.sigma_proof.R = mul(generator, sess[1].r)
           /\ pf.cm = CRHcompute(cfg, << sess[1].x >>)
           /\ pf.sigma_proof.r_h = CRHcompute(cfg, << sess[1].r, sess[1].o_h >>)
           /\ pf.sigma_proof.s = (sess[1].r + c * sess[1].x) % Q
           /\ transcript_p[1].log
                 = << LogEntry("absorb", pf.cm),
                      LogEntry("absorb_point", pf.sigma_proof.R),
                      LogEntry("absorb", pf.sigma_proof.r_h),
                      LogEntry("get_challenge", c) >>
           /\ (/\ VerifyDone /\ HonestProof /\ call[1].pre = <<>>
               /\ transcript_v[1].sponge.cfg = sess[1].cfg)
              => call[1].c = c

C12_Witness ==
    /\ VerifyDone /\ HonestProof /\ FreshTranscripts
    /\ transcript_v[1].sponge.cfg = sess[1].cfg
    /\ call[1].c = sess[1].c /\ sess[1].c > 1 /\ sess[1].x > 1 /\ sess[1].o_h # 0

(***************************************************************************)
(* C13  GenZK relation: the constraints of GenZKCircuit over the public    *)
(* (cm, s, r_h, c) and the private (x, r, o_h) are satisfied if and only   *)
(* if cm = Hash1(x), r_h = Hash2(r, o_h) and s = r + c*x mod Q all hold;   *)
(* the values computed with the steps of prove satisfy them.               *)
(***************************************************************************)
C13_GenZKRelation ==
    (call # <<>> /\ call[1].op = "generate_constraints")
    => LET k == sess[1].circuit
       IN  /\ call[1].out = "Satisfied"
                 <=> /\ k.cm = CRHcompute(k.poseidon_config, << k.x >>)
                     /\ k.r_h = CRHcompute(k.poseidon_config, << k.r, k.o_h >>)
                     /\ k.s = (k.r + k.c * k.x) % Q
           /\ sess[1].replaced = "none" => call[1].out = "Satisfied"

C13_Witness ==
    /\ call # <<>> /\ call[1].op = "generate_constraints"
    /\ sess[1].replaced = "s" /\ call[1].out = "Unsatisfied"
    /\ sess[1].circuit.c # 0 /\ sess[1].circuit.x # 0

(***************************************************************************)
(* C14  get_challenge re-absorption: get_challenge returns the one field   *)
(* element c squeezed from the sponge and leaves the sponge as the         *)
(* squeezed sponge with c absorbed; a second get_challenge is squeezed     *)
(* from the sponge that absorbed the first challenge.  transcript_v holds  *)
(* the state before the calls: it received the calls of transcript_p but   *)
(* the last one or two, which are get_challenge.                           *)
(***************************************************************************)
\* the transcript after one get_challenge, from the sponge's operations
Challenged(t) ==
    LET sq == SpongeSqueeze(t.sponge)
    IN  [sponge |-> SpongeAbsorb(sq.sponge, << sq.out >>),
         log |-> Append(t.log, LogEntry("get_challenge", sq.out))]
\* transcript_p is transcript_v after n more calls, each a get_challenge
Ahead(n) ==
    LET lp == transcript_p[1].log
        lv == transcript_v[1].log
    IN  /\ Len(lp) = Len(lv) + n
        /\ SubSeq(lp, 1, Len(lv)) = lv
        /\ \A i \in (Len(lv) + 1) .. Len(lp) : lp[i].op = "get_challenge"

C14_ChallengeReabsorbed ==
    /\ Ahead(1) => transcript_p[1] = Challenged(transcript_v[1])
    /\ Ahead(2) => transcript_p[1] = Challenged(Challenged(transcript_v[1]))

C14_Witness ==
    /\ Ahead(2)
    /\ transcript_v[1].log # <<>>
    /\ transcript_p[1].log[Len(transcript_p[1].log)].arg
          # SpongeSqueeze(SpongeSqueeze(transcript_v[1].sponge).sponge).out
    /\ transcript_p[1].log[Len(transcript_p[1].log)].arg
          # transcript_p[1].log[Len(transcript_p[1].log) - 1].arg

(***************************************************************************)
(* C15  Public-input layout, as claimed: the honest proof's backend proof  *)
(* is for the public inputs [cm, s, r_h, c] in the order verify hands them *)
(* over, and the backend rejects the honest proof under every other        *)
(* arrangement of the vector.                                              *)
(***************************************************************************)
Arranged == Permuted(<< 1, 2, 3, 4 >>, call[1].layout)

C15_PermutationRejected ==
    HonestRun
    => /\ call[1].pf[1].zkproof.inputs
             = << call[1].pf[1].cm, call[1].pf[1].sigma_proof.s,
                  call[1].pf[1].sigma_proof.r_h, call[1].c >>
       /\ Arranged = << 1, 2, 3, 4 >> => call[1].backend
       /\ Arranged # << 1, 2, 3, 4 >> => ~call[1].backend

(***************************************************************************)
(* C15 as amended: the honest proof's backend proof is for [cm, s, r_h, c] *)
(* in the order verify hands them over, and the backend accepts the honest *)
(* proof under an arrangement of the vector exactly when the arranged      *)
(* vector is again [cm, s, r_h, c] (the arrangement moves equal values     *)
(* only).                                                                  *)
(***************************************************************************)
C15_LayoutAmended ==
    HonestRun
    => LET vec == << call[1].pf[1].cm, call[1].pf[1].sigma_proof.s,
                     call[1].pf[1].sigma_proof.r_h, call[1].c >>
       IN  /\ call[1].pf[1].zkproof.inputs = vec
           /\ call[1].backend <=> Permuted(vec, call[1].layout) = vec

C15_Witness ==
    /\ HonestRun /\ Arranged = << 2, 1, 3, 4 >> /\ ~call[1].backend
    /\ call[1].out = "Ok"

(***************************************************************************)
(* C16  The challenge of verify depends only on cm, R, r_h of the proof    *)
(* and on the PoseidonConfig of its fresh transcript: it is the element    *)
(* squeezed from a new sponge that absorbed cm, the coordinates of R and   *)
(* r_h, whatever s, zkproof and X are (and verify draws no challenge       *)
(* exactly when R has no coordinates); so two runs agreeing on these       *)
(* compute the same c.                                                     *)
(***************************************************************************)
DerivedChallenge(cfg, cm, R, r_h) ==
    SpongeSqueeze(
        SpongeAbsorb(
            SpongeAbsorb(SpongeAbsorb(SpongeNew(cfg), << cm >>), prepare_point(R)),
            << r_h >>)).out

C16_ChallengeDependsOnCmRRh ==
    (VerifyDone /\ call[1].pre = <<>>)
    => LET pf == call[1].pf[1]
       IN  IF HasXY(pf.sigma_proof.R)
           THEN /\ call[1].out # "Panic"
                /\ call[1].c = DerivedChallenge(transcript_v[1].sponge.cfg, pf.cm,
                                                pf.sigma_proof.R, pf.sigma_proof.r_h)
           ELSE call[1].out = "Panic"

C16_Witness ==
    /\ VerifyDone /\ FreshTranscripts
    /\ transcript_v[1].sponge.cfg = sess[1].cfg
    /\ sess[1].replaced = "s" /\ call[1].X # Statement
    /\ call[1].c = sess[1].c /\ call[1].c # 0

\* C17: for every x and every sampled r and o_h, prove on a fresh transcript
\* returns a Proof: the call returns Ok with the proof and never ends in
\* SigmaFail, GenZKFail or an abort of its own making.
C17_ProveReturnsProof ==
    (call # <<>> /\ call[1].op = "prove" /\ sess[1].fresh)
    => /\ call[1].out = "Ok"
       /\ sess[1].honest # <<>>

\* C18: when several prove/verify sessions share one Params and each owns
\* its transcript, every session that has ended, however its steps were
\* interleaved with the others', has the challenge, the outcome, the proof
\* and the final transcript of the same call run alone.
C18_SessionIndependence ==
    \A i \in 1 .. Len(sess) :
        sess[i].pc \in {"done", "panicked"}
        => \A alone \in {Alone(sess[i])} :
             /\ sess[i].c = alone.c
             /\ sess[i].out = alone.out
             /\ sess[i].proof = alone.proof
             /\ sess[i].transcript = alone.transcript

\* a verify session opened after a prove session has run to Ok while the
\* prove session is still between its absorbs
C18_Witness ==
    /\ Len(sess) = 2
    /\ sess[1].args.kind = "prove" /\ sess[1].pc = "R"
    /\ sess[2].args.kind = "verify" /\ sess[2].pc = "done"
    /\ sess[2].out = "Ok"
    /\ sess[2].c # 0

=============================================================================
